---------------------------- MODULE Spec2Model ----------------------------
(***************************************************************************)
(* MyWhoosh2Garmin: a model of the three programs of the repository.       *)
(*                                                                         *)
(*   src/myWhoosh2Garmin.py   the original script: authenticate, clean up  *)
(*                            the newest .fit file, back it up, upload it  *)
(*   src/strava/test.py       the class-based rewrite of the same pipeline *)
(*   src/strava/main.py       the Strava client: token store, activity     *)
(*                            listing, download with a ledger of           *)
(*                            downloaded activity ids                      *)
(*                                                                         *)
(* SpecFit walks the record stream of a FIT file through both record       *)
(* transformers (cleanup_fit_file and FitFileProcessor.process_file).      *)
(* SpecStrava is the __main__ block of src/strava/main.py, run repeatedly  *)
(* against one token file, one ledger database and one destination.        *)
(* SpecGarmin is main() of src/myWhoosh2Garmin.py and main() of            *)
(* src/strava/test.py, run repeatedly against one source directory, one    *)
(* backup directory and one saved garth session.                           *)
(***************************************************************************)
EXTENDS Integers, Sequences, FiniteSets, TLC

\* ------------------------------------------------------------------ bounds
\* Longest record stream walked by the transformers.
MaxLen == 4

\* Runs of src/strava/main.py against the same token file and database.
MaxRuns == 2

\* Activities the destination holds: their ids are 1..MaxIds.
MaxIds == 2

\* Distinct access tokens the token endpoint hands out before it repeats one.
MaxTokens == 2

\* Depth at which the interpreter stops the recursion of
\* get_filtered_activities with a RecursionError.
MaxDepth == 2

\* Last instant of the clock, in minutes.
MaxTime == 10

\* Runs of the upload pipeline (either main()) against the same directories.
MaxGarminRuns == 2

\* Last instant of the wall clock of the upload pipeline, in seconds.
MaxClock == 1

\* --------------------------------------------------------------- variables
VARIABLES
    impl,               \* which transformer walks the stream
    records,            \* fit_file.records decoded so far, in file order
    builder,            \* the messages handed to FitFileBuilder.add, in order
    cadence_values,     \* the accumulators of the walk
    power_values,
    heart_rate_values,
    \* src/strava/main.py: what outlives a run
    token_file,         \* strava_tokens.json: NoneV, or <<token>>
    db,                 \* downloaded_activities: rows [activity_id, downloaded_at]
    files,              \* activity_<id>_original.fit: "absent", "partial", "complete"
    issued,             \* the access token the token endpoint issued last
    now,                \* the clock, in minutes
    runs,               \* runs started so far
    transfers,          \* per activity: exports received completely, over all runs
    \* src/strava/main.py: one run
    spc,                \* where the run is
    token_data,         \* StravaAuth.token_data: NoneV, or <<token>>
    header,             \* session.headers["Authorization"]: 0, or the bearer token
    db_open,            \* ActivityDatabase.conn is open
    dest,               \* how the destination answers during this run
    depth,              \* recursion depth of get_filtered_activities
    all_activities,     \* ids of the filtered listing
    new_activities,     \* ids still to download
    cur,                \* the activity download_activity is called with
    script,             \* the destination's answers to the export requests for cur
    attempts,           \* per activity: export requests sent in this run
    result,             \* per activity: how download_activity ended in this run
    refreshes,          \* refresh_token() calls of this run, by caller
    prompts,            \* interactive OAuth prompts of this run
    raised,             \* the exception that ended the run's try block
    ledger_at_start,    \* db as the run found it
    \* the upload pipeline: what outlives a run
    prog,               \* which main() runs: "myWhoosh2Garmin" or "test"
    garth_tokens,       \* the saved garth session (.garth) exists
    backups,            \* backup directory: [stem, timestamp, content]
    clock,              \* datetime.now(), in seconds
    gruns,              \* runs started so far
    \* the upload pipeline: one run
    gpc,                \* where the run is
    fit_dir,            \* the .fit files of the source directory
    fit_file,           \* the selected source file: NoneV, or <<file>>
    new_file_path,      \* the backup path: NoneV, or <<[stem, timestamp]>>
    session,            \* the garth session: "none", "resumed", "logged_in"
    trace,              \* the stages and calls of this run, in order
    upload_resp,        \* the destination's answer to the upload
    exit_code           \* the process exit code (-1: still running)

fitVars == <<impl, records, builder, cadence_values, power_values, heart_rate_values>>

stravaVars ==
    <<token_file, db, files, issued, now, runs, transfers, spc, token_data, header,
      db_open, dest, depth, all_activities, new_activities, cur, script, attempts,
      result, refreshes, prompts, raised, ledger_at_start>>

garminVars ==
    <<prog, garth_tokens, backups, clock, gruns, gpc, fit_dir, fit_file, new_file_path,
      session, trace, upload_resp, exit_code>>

vars == <<fitVars, stravaVars, garminVars>>

\* ------------------------------------------------------------ field values
\* A field of a message is absent (Python None) or a number.  Numbers are
\* kept as reduced fractions <<numerator, denominator>> because the
\* transformers compute sum(values) / len(values) with Python's true division.
NoneV == <<>>

Num(n) == <<n, 1>>

RECURSIVE GCD(_, _)
GCD(a, b) == IF b = 0 THEN a ELSE GCD(b, a % b)

\* Python's a / b for a >= 0, b > 0.
TrueDiv(a, b) == LET g == GCD(a, b) IN <<a \div g, b \div g>>

\* Python truthiness of a field value: None and 0 are falsy.
Falsy(v) == v = NoneV \/ v[1] = 0

\* Python's `value if value else 0` / `value or 0` on an integer field.
OrZero(v) == IF Falsy(v) THEN 0 ELSE v[1]

RECURSIVE SumSeq(_)
SumSeq(s) == IF s = <<>> THEN 0 ELSE Head(s) + SumSeq(Tail(s))

\* ---------------------------------------------------------------- messages
FileCreatorMessage == [kind |-> "FileCreator"]

LapMessage == [kind |-> "Lap"]

\* Any other message of the stream (definition, file id, event, activity ...).
OtherMessage == [kind |-> "Other"]

RecordMessage(c, p, h, t) ==
    [kind |-> "Record", cadence |-> c, power |-> p, heart_rate |-> h, temperature |-> t]

SessionMessage(c, p, h) ==
    [kind |-> "Session", avg_cadence |-> c, avg_power |-> p, avg_heart_rate |-> h]

\* The record messages a stream is drawn from: metrics present, zero and
\* absent, with and without the temperature field.
RecordMessages ==
    { RecordMessage(Num(2), Num(3), NoneV, Num(1)),
      RecordMessage(Num(1), Num(0), Num(2), NoneV),
      RecordMessage(NoneV, Num(2), Num(1), Num(1)) }

\* The session messages a stream is drawn from: averages absent, zero and set.
SessionMessages ==
    { SessionMessage(NoneV, NoneV, NoneV),
      SessionMessage(Num(0), Num(5), NoneV),
      SessionMessage(Num(4), NoneV, Num(0)) }

Messages ==
    {FileCreatorMessage, LapMessage, OtherMessage} \cup RecordMessages \cup SessionMessages

\* ------------------------------------------------- src/myWhoosh2Garmin.py
\* remove_field that leaves the field in place.
remove_field_noop(message) == message

\* message.remove_field(RecordTemperatureField.ID)
remove_field(message) == [message EXCEPT !.temperature = NoneV]

\* InlineAvg with floor division (//) where the source divides truly (/).
InlineAvgFloorDiv(values) ==
    IF values = <<>> THEN Num(0) ELSE Num(SumSeq(values) \div Len(values))

\* sum(values) / len(values) if values else 0
InlineAvg(values) ==
    IF values = <<>> THEN Num(0) ELSE TrueDiv(SumSeq(values), Len(values))

\* CleanupSession that overwrites the three averages whatever they hold.
CleanupSessionOverwrite(message, c, p, h) ==
    [message EXCEPT !.avg_cadence = InlineAvg(c), !.avg_power = InlineAvg(p),
                    !.avg_heart_rate = InlineAvg(h)]

\* The body of `if isinstance(message, SessionMessage)`: each average is set
\* when it is falsy; avg_power is tested a second time after avg_heart_rate.
CleanupSession(message, c, p, h) ==
    LET m1 == IF Falsy(message.avg_cadence)
              THEN [message EXCEPT !.avg_cadence = InlineAvg(c)] ELSE message
        m2 == IF Falsy(m1.avg_power)
              THEN [m1 EXCEPT !.avg_power = InlineAvg(p)] ELSE m1
        m3 == IF Falsy(m2.avg_heart_rate)
              THEN [m2 EXCEPT !.avg_heart_rate = InlineAvg(h)] ELSE m2
        m4 == IF Falsy(m3.avg_power)
              THEN [m3 EXCEPT !.avg_power = InlineAvg(p)] ELSE m3
    IN  m4

\* Whether cleanup_fit_file skips the message (`continue`).
CleanupSkips(message) == message.kind \in {"FileCreator", "Lap"}

\* CleanupReset without the rebinding: the list keeps growing.
CleanupNoReset(values) == values

\* `cadence_values = []` (and the two others) at the end of the session branch:
\* the accumulator after a session message.
CleanupReset(values) == <<>>

\* One iteration of `for record in fit_file.records` of cleanup_fit_file.
cleanup_fit_file(message) ==
    /\ impl = "cleanup_fit_file"
    /\ records' = Append(records, message)
    /\ IF CleanupSkips(message)
       THEN UNCHANGED <<builder, cadence_values, power_values, heart_rate_values>>
       ELSE IF message.kind = "Record"
       THEN /\ cadence_values' = Append(cadence_values, OrZero(message.cadence))
            /\ power_values' = Append(power_values, OrZero(message.power))
            /\ heart_rate_values' = Append(heart_rate_values, OrZero(message.heart_rate))
            /\ builder' = Append(builder, remove_field(message))
       ELSE IF message.kind = "Session"
       THEN /\ builder' = Append(builder,
                 CleanupSession(message, cadence_values, power_values, heart_rate_values))
            /\ cadence_values' = CleanupReset(cadence_values)
            /\ power_values' = CleanupReset(power_values)
            /\ heart_rate_values' = CleanupReset(heart_rate_values)
       ELSE /\ builder' = Append(builder, message)
            /\ UNCHANGED <<cadence_values, power_values, heart_rate_values>>
    /\ UNCHANGED impl

\* ------------------------------------------------------ src/strava/test.py
\* FitFileProcessor.calculate_avg
calculate_avg(values) ==
    IF values = <<>> THEN Num(0) ELSE TrueDiv(SumSeq(values), Len(values))

\* FitFileProcessor._process_record_message: the message without its
\* temperature field, and the value appended to each accumulator.
process_record_message(message) ==
    [message |-> [message EXCEPT !.temperature = NoneV],
     cadence |-> OrZero(message.cadence),
     power |-> OrZero(message.power),
     hr |-> OrZero(message.heart_rate)]

\* FitFileProcessor._process_session_message
process_session_message(message, cadence, power, hr) ==
    [message EXCEPT
        !.avg_cadence = IF Falsy(@) THEN calculate_avg(cadence) ELSE @,
        !.avg_power = IF Falsy(@) THEN calculate_avg(power) ELSE @,
        !.avg_heart_rate = IF Falsy(@) THEN calculate_avg(hr) ELSE @]

\* `cadence, power, hr = [], [], []` after a session message.
ProcessReset(values) == <<>>

\* One iteration of `for record in fit_file.records` of process_file: every
\* message reaches builder.add, whatever its kind.
process_file(message) ==
    /\ impl = "process_file"
    /\ records' = Append(records, message)
    /\ IF message.kind = "Record"
       THEN LET r == process_record_message(message) IN
            /\ cadence_values' = Append(cadence_values, r.cadence)
            /\ power_values' = Append(power_values, r.power)
            /\ heart_rate_values' = Append(heart_rate_values, r.hr)
            /\ builder' = Append(builder, r.message)
       ELSE IF message.kind = "Session"
       THEN /\ builder' = Append(builder,
                 process_session_message(message, cadence_values, power_values,
                                         heart_rate_values))
            /\ cadence_values' = ProcessReset(cadence_values)
            /\ power_values' = ProcessReset(power_values)
            /\ heart_rate_values' = ProcessReset(heart_rate_values)
       ELSE /\ builder' = Append(builder, message)
            /\ UNCHANGED <<cadence_values, power_values, heart_rate_values>>
    /\ UNCHANGED impl

\* ----------------------------------------------------- src/strava/main.py
\* timedelta(minutes=5) of _is_token_valid.
Margin == 5

Ids == 1..MaxIds

\* TokenData
Token(n, exp) == [access_token |-> n, refresh_token |-> n, expires_at |-> exp]

\* Seconds-to-expiry the token endpoint may grant, in minutes: one inside the
\* margin of _is_token_valid, one outside it.
Lifetimes == {5, 15}

\* A token file cut short by a failed write: open(token_file, "w") has
\* truncated it and json.dump did not finish; json.load cannot parse it.
PartialFile == [access_token |-> -1, refresh_token |-> -1, expires_at |-> -1]

\* The token the token endpoint issues at instant t.
NextAccess(n) == (n % MaxTokens) + 1

\* How the destination answers during one run: the token endpoint to a
\* refresh grant and to an authorization-code grant, the activities endpoint
\* ("unauthorized_once": 401 to the first request only).
Dests ==
    [refresh : {"ok", "rejected", "error"},
     code_grant : {"ok", "error"},
     listing : {"ok", "unauthorized_once", "unauthorized", "error"}]

\* The destination's answers to the first and to a second export request for
\* one activity.
Scripts == [1..2 -> {"ok", "unauthorized", "error"}]

\* is_downloaded with a query that never matches a row.
is_downloaded_no_row(rows, activity_id) == FALSE

\* ActivityDatabase.is_downloaded
is_downloaded(rows, activity_id) == \E r \in rows : r.activity_id = activity_id

\* mark_downloaded_skipped for a commit placed in a `finally`.
mark_downloaded_anyway(rows, activity_id, t) ==
    rows \cup {[activity_id |-> activity_id, downloaded_at |-> t]}

\* The ledger after _download_attempt was left by an exception of the write
\* loop: mark_downloaded, the statement after it, is not reached.
mark_downloaded_skipped(rows, activity_id, t) == rows

\* close that leaves the connection open.
close_noop(conn) == conn

\* ActivityDatabase.close: the connection after the call.
close(conn) == FALSE

\* mark_downloaded as INSERT OR REPLACE: the row gets a new timestamp.
mark_downloaded_replace(rows, activity_id, t) ==
    {r \in rows : r.activity_id # activity_id}
        \cup {[activity_id |-> activity_id, downloaded_at |-> t]}

\* ActivityDatabase.mark_downloaded: INSERT OR IGNORE, downloaded_at defaulting
\* to CURRENT_TIMESTAMP.
mark_downloaded(rows, activity_id, t) ==
    IF \E r \in rows : r.activity_id = activity_id
    THEN rows
    ELSE rows \cup {[activity_id |-> activity_id, downloaded_at |-> t]}

\* StravaAuth._is_token_valid
is_token_valid(td, t) == td # NoneV /\ t < td[1].expires_at - Margin

\* The StravaAuth object with its session and token file, as the methods below
\* read and change it; refresh_calls and prompts count what one call did.
AuthState ==
    [token_file |-> token_file, token_data |-> token_data, header |-> header,
     issued |-> issued, refresh_calls |-> 0, prompts |-> 0]

\* StravaAuth._load_tokens
load_tokens(a) ==
    IF a.token_file # NoneV THEN [a EXCEPT !.token_data = a.token_file] ELSE a

\* StravaAuth._initialize_session: the header is set only when the token file
\* exists and the loaded token is valid.
initialize_session(a, t) ==
    LET l == load_tokens(a)
    IN  IF a.token_file # NoneV /\ is_token_valid(l.token_data, t)
        THEN [l EXCEPT !.header = l.token_data[1].access_token]
        ELSE l

\* _save_tokens that sets token_data and never writes the token file.
save_tokens_in_memory(a, tok, t) == [a EXCEPT !.token_data = <<tok>>]

\* StravaAuth._save_tokens
save_tokens(a, tok, t) ==
    initialize_session([a EXCEPT !.token_file = <<tok>>, !.token_data = <<tok>>], t)

\* The token endpoint answers 200 with a new token and _save_tokens is called:
\* it returns, or the write to the token file raises part-way (disk full, I/O
\* error) before token_data is set.
Granted(a, t) ==
    { [a |-> save_tokens([a EXCEPT !.issued = NextAccess(a.issued)],
                         Token(NextAccess(a.issued), t + life), t),
       exc |-> "none"] : life \in Lifetimes }
    \cup { [a |-> [a EXCEPT !.issued = NextAccess(a.issued), !.token_file = <<PartialFile>>],
            exc |-> "OSError"] }

\* StravaAuth.refresh_token: the states it may leave, each with the exception
\* it raises ("none": it returns).
refresh_token(a, t, d) ==
    IF a.token_data = NoneV
    THEN {[a |-> a, exc |-> "ValueError"]}
    ELSE LET a1 == [a EXCEPT !.refresh_calls = @ + 1]
         IN  CASE d.refresh = "ok" -> Granted(a1, t)
               [] d.refresh = "rejected" -> {[a |-> a1, exc |-> "HTTPError400"]}
               [] d.refresh = "error" -> {[a |-> a1, exc |-> "HTTPError"]}

\* StravaAuth._perform_oauth_flow and _fetch_token: the pasted URL carries a
\* code or not.
perform_oauth_flow(a, t, d) ==
    LET a1 == [a EXCEPT !.prompts = @ + 1]
    IN  {[a |-> a1, exc |-> "ValueError"]}
        \cup (IF d.code_grant = "ok" THEN Granted(a1, t)
              ELSE {[a |-> a1, exc |-> "HTTPError"]})

\* authenticate without the validity test: it refreshes whenever a refresh
\* token is at hand.
authenticate_always_refresh(a, t, d) ==
    IF a.token_data # NoneV
    THEN UNION { IF o.exc = "HTTPError400"
                 THEN perform_oauth_flow(o.a, t, d)
                 ELSE {o} : o \in refresh_token(a, t, d) }
    ELSE perform_oauth_flow(a, t, d)

\* StravaAuth.authenticate
authenticate(a, t, d) ==
    IF is_token_valid(a.token_data, t)
    THEN {[a |-> a, exc |-> "none"]}
    ELSE IF a.token_data # NoneV
         THEN UNION { IF o.exc = "HTTPError400"
                      THEN perform_oauth_flow(o.a, t, d)
                      ELSE {o} : o \in refresh_token(a, t, d) }
         ELSE perform_oauth_flow(a, t, d)

\* The variables of the StravaAuth object after a call made by `site`.
SetAuth(a, site) ==
    /\ token_file' = a.token_file
    /\ token_data' = a.token_data
    /\ header' = a.header
    /\ issued' = a.issued
    /\ refreshes' = [refreshes EXCEPT ![site] = @ + a.refresh_calls]
    /\ prompts' = prompts + a.prompts

\* The try block is left with exception e.
Raise(e) == spc' = "except" /\ raised' = e

NoRefreshes == [authenticate |-> 0, listing |-> 0, download |-> 0]

\* The upload pipeline before its first run.
GarminAtRest ==
    /\ backups = {}
    /\ clock = 0
    /\ gruns = 0
    /\ gpc = "idle"
    /\ fit_dir = {}
    /\ fit_file = NoneV
    /\ new_file_path = NoneV
    /\ session = "none"
    /\ trace = <<>>
    /\ upload_resp = "none"
    /\ exit_code = 0

\* No run of src/strava/main.py has started.
StravaAtRest ==
    /\ token_file = NoneV
    /\ db = {}
    /\ files = [i \in Ids |-> "absent"]
    /\ issued = 0
    /\ now = 0
    /\ runs = 0
    /\ transfers = [i \in Ids |-> 0]
    /\ spc = "idle"
    /\ token_data = NoneV
    /\ header = 0
    /\ db_open = FALSE
    /\ dest = [refresh |-> "ok", code_grant |-> "ok", listing |-> "ok"]
    /\ depth = 0
    /\ all_activities = {}
    /\ new_activities = {}
    /\ cur = 1
    /\ script = [i \in 1..2 |-> "ok"]
    /\ attempts = [i \in Ids |-> 0]
    /\ result = [i \in Ids |-> "none"]
    /\ refreshes = NoRefreshes
    /\ prompts = 0
    /\ raised = "none"
    /\ ledger_at_start = {}

InitStrava ==
    /\ StravaAtRest
    /\ GarminAtRest
    /\ prog = "myWhoosh2Garmin"
    /\ garth_tokens = FALSE
    /\ impl = "cleanup_fit_file"
    /\ records = <<>>
    /\ builder = <<>>
    /\ cadence_values = <<>>
    /\ power_values = <<>>
    /\ heart_rate_values = <<>>

\* StravaClientBuilder.__init__: a new StravaAuth (token_data None, a new
\* Session, _initialize_session) and the database connection.  When the token
\* file cannot be parsed, json.load raises in StravaAuth.__init__: no builder
\* and no database connection exist and the try block is left.
StravaClientBuilder ==
    /\ spc = "idle"
    /\ runs < MaxRuns
    /\ runs' = runs + 1
    /\ IF token_file = <<PartialFile>>
       THEN /\ token_data' = NoneV
            /\ header' = 0
            /\ db_open' = FALSE
            /\ spc' = "except"
            /\ raised' = "JSONDecodeError"
       ELSE LET a == initialize_session([AuthState EXCEPT !.token_data = NoneV, !.header = 0],
                                        now)
            IN  /\ token_data' = a.token_data
                /\ header' = a.header
                /\ db_open' = TRUE
                /\ spc' = "with_auth"
                /\ raised' = "none"
    /\ dest' \in Dests
    /\ depth' = 0
    /\ all_activities' = {}
    /\ new_activities' = {}
    /\ attempts' = [i \in Ids |-> 0]
    /\ result' = [i \in Ids |-> "none"]
    /\ refreshes' = NoRefreshes
    /\ prompts' = 0
    /\ ledger_at_start' = db
    /\ cur' = 1
    /\ script' = [i \in 1..2 |-> "ok"]
    /\ UNCHANGED <<fitVars, garminVars, token_file, db, files, issued, now, transfers>>

\* A call of authenticate() at pc `at`, continuing at `next` when it returns.
AuthenticateAt(at, next) ==
    /\ spc = at
    /\ \E o \in authenticate(AuthState, now, dest) :
           /\ SetAuth(o.a, "authenticate")
           /\ IF o.exc = "none"
              THEN spc' = next /\ UNCHANGED raised
              ELSE Raise(o.exc)
    /\ UNCHANGED <<fitVars, garminVars, db, files, now, runs, transfers, db_open, dest, depth, all_activities,
                   new_activities, cur, script, attempts, result, ledger_at_start>>

\* StravaClientBuilder.with_auth (with_cookies and build change nothing here).
with_auth == AuthenticateAt("with_auth", "get_filtered_activities")

\* StravaClient.get_filtered_activities: self.auth.authenticate()
get_filtered_activities == AuthenticateAt("get_filtered_activities", "activities_get")

\* The answer to the listing request made at recursion depth n.
ListingResponse(d, n) ==
    CASE d.listing = "ok" -> "ok"
      [] d.listing = "unauthorized_once" -> IF n = 0 THEN "unauthorized" ELSE "ok"
      [] d.listing = "unauthorized" -> "unauthorized"
      [] d.listing = "error" -> "error"

\* StravaClient.get_filtered_activities: the GET and raise_for_status; the
\* list returned holds the VirtualRide activities named MyWhoosh.
activities_get ==
    /\ spc = "activities_get"
    /\ LET resp == ListingResponse(dest, depth)
       IN  CASE resp = "ok" ->
                    /\ all_activities' \in SUBSET Ids
                    /\ spc' = "filter"
                    /\ UNCHANGED raised
             [] resp = "unauthorized" ->
                    /\ spc' = "activities_refresh"
                    /\ UNCHANGED <<fitVars, garminVars, all_activities, raised>>
             [] resp = "error" ->
                    /\ Raise("HTTPError")
                    /\ UNCHANGED all_activities
    /\ UNCHANGED <<fitVars, garminVars, token_file, db, files, issued, now, runs, transfers, token_data, header,
                   db_open, dest, depth, new_activities, cur, script, attempts, result,
                   refreshes, prompts, ledger_at_start>>

\* StravaClient.get_filtered_activities, the 401 handler: refresh_token(), then
\* `return self.get_filtered_activities()`.
activities_refresh ==
    /\ spc = "activities_refresh"
    /\ \E o \in refresh_token(AuthState, now, dest) :
           /\ SetAuth(o.a, "listing")
           /\ IF o.exc # "none"
              THEN Raise(o.exc) /\ UNCHANGED depth
              ELSE IF depth < MaxDepth
              THEN depth' = depth + 1 /\ spc' = "get_filtered_activities" /\ UNCHANGED raised
              ELSE Raise("RecursionError") /\ UNCHANGED depth
    /\ UNCHANGED <<fitVars, garminVars, db, files, now, runs, transfers, db_open, dest, all_activities,
                   new_activities, cur, script, attempts, result, ledger_at_start>>

\* __main__: new_activities, and exit() when there is none.
filter_new ==
    /\ spc = "filter"
    /\ LET new == {a \in all_activities : ~ is_downloaded(db, a)}
       IN  /\ new_activities' = new
           /\ IF new = {}
              THEN spc' = "finally" /\ raised' = "SystemExit"
              ELSE spc' = "download_loop" /\ UNCHANGED raised
    /\ UNCHANGED <<fitVars, garminVars, token_file, db, files, issued, now, runs, transfers, token_data, header,
                   db_open, dest, depth, all_activities, cur, script, attempts, result,
                   refreshes, prompts, ledger_at_start>>

\* __main__: `for activity in new_activities`, the call of download_activity.
download_activity ==
    /\ spc = "download_loop"
    /\ \E a \in new_activities :
           /\ cur' = a
           /\ new_activities' = new_activities \ {a}
    /\ script' \in Scripts
    /\ spc' = "download_attempt"
    /\ UNCHANGED <<fitVars, garminVars, token_file, db, files, issued, now, runs, transfers, token_data, header,
                   db_open, dest, depth, all_activities, attempts, result, refreshes,
                   prompts, raised, ledger_at_start>>

\* __main__: the loop is over, the summary is printed.
download_summary ==
    /\ spc = "download_loop"
    /\ new_activities = {}
    /\ spc' = "finally"
    /\ UNCHANGED <<fitVars, garminVars, token_file, db, files, issued, now, runs, transfers, token_data, header,
                   db_open, dest, depth, all_activities, new_activities, cur, script,
                   attempts, result, refreshes, prompts, raised, ledger_at_start>>

\* ActivityDownloader._download_attempt up to raise_for_status, as called
\* first by download_activity.  On 401 the handler of download_activity
\* evaluates self.session.auth.refresh_token(): the session is the
\* requests.Session made by StravaAuth, whose auth attribute nothing in the
\* program sets, so it is None and the handler ends in AttributeError before
\* any refresh or second attempt.
download_attempt ==
    /\ spc = "download_attempt"
    /\ IF is_downloaded(db, cur)
       THEN /\ result' = [result EXCEPT ![cur] = "skipped"]
            /\ spc' = "download_loop"
            /\ UNCHANGED <<fitVars, garminVars, attempts, raised>>
       ELSE /\ attempts' = [attempts EXCEPT ![cur] = @ + 1]
            /\ LET resp == script[attempts[cur] + 1]
               IN  CASE resp = "ok" ->
                            /\ spc' = "write_file"
                            /\ UNCHANGED <<fitVars, garminVars, result, raised>>
                     [] resp = "unauthorized" ->
                            /\ Raise("AttributeError")
                            /\ result' = [result EXCEPT ![cur] = "raised"]
                     [] resp = "error" ->
                            /\ Raise("HTTPError")
                            /\ result' = [result EXCEPT ![cur] = "raised"]
    /\ UNCHANGED <<fitVars, garminVars, token_file, db, files, issued, now, runs, transfers, token_data, header,
                   db_open, dest, depth, all_activities, new_activities, cur, script,
                   refreshes, prompts, ledger_at_start>>

\* _download_attempt: the file is opened "wb" and the chunks are written.
write_file ==
    /\ spc = "write_file"
    /\ files' = [files EXCEPT ![cur] = "complete"]
    /\ transfers' = [transfers EXCEPT ![cur] = @ + 1]
    /\ spc' = "mark_downloaded"
    /\ UNCHANGED <<fitVars, garminVars, token_file, db, issued, now, runs, token_data, header, db_open, dest,
                   depth, all_activities, new_activities, cur, script, attempts, result,
                   refreshes, prompts, raised, ledger_at_start>>

\* _download_attempt: a write or a chunk read fails part-way.
write_file_fails ==
    /\ spc = "write_file"
    /\ files' = [files EXCEPT ![cur] = "partial"]
    /\ db' = mark_downloaded_skipped(db, cur, now)
    /\ result' = [result EXCEPT ![cur] = "raised"]
    /\ Raise("OSError")
    /\ UNCHANGED <<fitVars, garminVars, token_file, issued, now, runs, transfers, token_data, header,
                   db_open, dest, depth, all_activities, new_activities, cur, script,
                   attempts, refreshes, prompts, ledger_at_start>>

\* _download_attempt: self.db.mark_downloaded(activity_id); return True.
commit_download ==
    /\ spc = "mark_downloaded"
    /\ db' = mark_downloaded(db, cur, now)
    /\ result' = [result EXCEPT ![cur] = "downloaded"]
    /\ spc' = "download_loop"
    /\ UNCHANGED <<fitVars, garminVars, token_file, files, issued, now, runs, transfers, token_data, header,
                   db_open, dest, depth, all_activities, new_activities, cur, script,
                   attempts, refreshes, prompts, raised, ledger_at_start>>

\* _download_attempt: the INSERT or the commit raises sqlite3.Error (database
\* locked, disk full).
commit_download_fails ==
    /\ spc = "mark_downloaded"
    /\ result' = [result EXCEPT ![cur] = "raised"]
    /\ Raise("sqlite3.Error")
    /\ UNCHANGED <<fitVars, garminVars, token_file, db, files, issued, now, runs, transfers, token_data, header,
                   db_open, dest, depth, all_activities, new_activities, cur, script,
                   attempts, refreshes, prompts, ledger_at_start>>

\* __main__: `except Exception as e: print(...)`.
except_exception ==
    /\ spc = "except"
    /\ spc' = "finally"
    /\ UNCHANGED <<fitVars, garminVars, token_file, db, files, issued, now, runs, transfers, token_data, header,
                   db_open, dest, depth, all_activities, new_activities, cur, script,
                   attempts, result, refreshes, prompts, raised, ledger_at_start>>

\* __main__: `finally: if client_builder: client_builder.database.close()`;
\* the process ends.
finally_close ==
    /\ spc = "finally"
    /\ db_open' = IF db_open THEN close(db_open) ELSE db_open
    /\ spc' = "idle"
    /\ UNCHANGED <<fitVars, garminVars, token_file, db, files, issued, now, runs, transfers, token_data, header,
                   dest, depth, all_activities, new_activities, cur, script, attempts,
                   result, refreshes, prompts, raised, ledger_at_start>>

\* Ten minutes pass.
Tick ==
    /\ now + 10 <= MaxTime
    /\ now' = now + 10
    /\ UNCHANGED <<fitVars, garminVars, token_file, db, files, issued, runs, transfers, spc, token_data, header,
                   db_open, dest, depth, all_activities, new_activities, cur, script,
                   attempts, result, refreshes, prompts, raised, ledger_at_start>>

NextStrava ==
    \/ StravaClientBuilder
    \/ with_auth
    \/ get_filtered_activities
    \/ activities_get
    \/ activities_refresh
    \/ filter_new
    \/ download_activity
    \/ download_summary
    \/ download_attempt
    \/ write_file
    \/ write_file_fails
    \/ commit_download
    \/ commit_download_fails
    \/ except_exception
    \/ finally_close
    \/ Tick

SpecStrava == InitStrava /\ [][NextStrava]_vars

\* ------------------------------------ properties of src/strava/main.py runs
\* The rows of the ledger for one activity.
RowsOf(rows, i) == {r \in rows : r.activity_id = i}

\* C1: at-most-once delivery: over any sequence of runs, also runs that fail
\* after the transfer and before the ledger commit, an activity is transferred
\* successfully at most once.
C1_AtMostOneSuccessfulTransfer == \A i \in Ids : transfers[i] <= 1

\* C2: a run for an activity that is already in the ledger sends no transfer
\* request for it and leaves the ledger unchanged.
C2_DeliveredActivityIsNotTransferredAgain ==
    /\ \A i \in Ids :
           RowsOf(ledger_at_start, i) # {} =>
               attempts[i] = 0 /\ RowsOf(db, i) = RowsOf(ledger_at_start, i)
    /\ (\A i \in all_activities : RowsOf(ledger_at_start, i) # {}) => db = ledger_at_start

\* A later run, finished, whose listing held an activity of the ledger and a
\* new one that it downloaded, at a later instant than the first.
C2_Witness ==
    /\ spc = "idle"
    /\ raised = "none"
    /\ \E i, j \in all_activities :
           /\ RowsOf(ledger_at_start, i) # {}
           /\ \A r \in RowsOf(db, i) : r.downloaded_at < now
           /\ result[j] = "downloaded"

\* download_activity has ended for cur.
DownloadEnded == result[cur] # "none"

\* C3: when the first transfer attempt is answered "unauthorized" and the
\* refresh that follows succeeds, there are exactly 2 attempts and 1 refresh
\* and the artifact is transferred and committed to the ledger.
C3_UnauthorizedThenRefreshThenSuccess ==
    (DownloadEnded /\ script[1] = "unauthorized" /\ script[2] = "ok" /\ dest.refresh = "ok")
        => /\ attempts[cur] = 2
           /\ refreshes.download = 1
           /\ result[cur] = "downloaded"
           /\ RowsOf(db, cur) # {}

\* C4: never more than 2 attempts nor more than 1 refresh for one artifact in
\* one run; when the first attempt and the retry are both answered
\* "unauthorized", the artifact fails with exactly 2 attempts and the ledger
\* is not updated.
C4_SecondUnauthorizedIsTerminal ==
    /\ \A i \in Ids : attempts[i] <= 2
    /\ refreshes.download <= 1
    /\ (DownloadEnded /\ script[1] = "unauthorized" /\ script[2] = "unauthorized"
            /\ dest.refresh = "ok")
           => /\ attempts[cur] = 2
              /\ result[cur] = "raised"
              /\ RowsOf(db, cur) = {}

\* C5: when every listing request is answered "unauthorized", also after
\* successful refreshes, get_filtered_activities refreshes at most once and
\* ends in a failure.
C5_ListingRefreshesAtMostOnce ==
    /\ refreshes.listing <= 1
    /\ (dest.listing = "unauthorized" /\ spc = "idle" /\ runs > 0) => raised # "none"

\* refresh_token() calls of the run, whoever made them.
TotalRefreshes == refreshes.authenticate + refreshes.listing + refreshes.download

\* C14: on every path that calls refresh (authenticate, the listing retry, the
\* transfer retry) a refresh that the token endpoint rejects as a client error
\* (400) leads to the interactive authorization and never ends the run, and a
\* refresh that fails otherwise ends the run without another refresh.
C14_RefreshFailureHandling ==
    /\ raised # "HTTPError400"
    /\ dest.refresh = "error" => TotalRefreshes <= 1

\* C15: whenever a login or a refresh returns successfully (the token endpoint
\* has issued a token and no exception is raised), the token file holds the issued token and equals the
\* token data of the StravaAuth object.
C15_PersistedTokensEqualSession ==
    [][(issued' # issued /\ raised' = "none") =>
          /\ token_file' # NoneV
          /\ token_file' = token_data'
          /\ token_file'[1].access_token = issued']_vars

\* A run in which the interactive authorization and then a refresh succeeded.
C15_Witness ==
    /\ prompts > 0
    /\ refreshes.authenticate > 0
    /\ raised = "none"
    /\ spc = "activities_get"
    /\ token_file # NoneV
    /\ token_file[1].access_token = issued

\* C23: writes to the token store and to the ledger are atomic: each store
\* holds its complete previous or its complete new content, never a partial
\* one, also after a run that ended in an error during a write.
C23_StoresAreNeverPartial ==
    /\ token_file # <<PartialFile>>
    /\ \A i \in Ids : Cardinality(RowsOf(db, i)) <= 1

\* C24: the ledger is append-only: no step removes or changes a row;
\* mark_downloaded(id) for an id of the ledger leaves the ledger as it is,
\* timestamp included; after mark_downloaded(id), is_downloaded(id) is true.
C24_LedgerIsAppendOnly ==
    [][/\ \A r \in db : r \in db'
       /\ \A i \in Ids :
              /\ is_downloaded(mark_downloaded(db, i, now), i)
              /\ RowsOf(db, i) # {} => mark_downloaded(db, i, now) = db
       /\ db' # db => is_downloaded(db', cur)]_vars

\* A later run, at a later instant, committed a second activity to a ledger
\* that held a row.
C24_Witness ==
    /\ runs = 2
    /\ result[cur] = "downloaded"
    /\ \E r \in ledger_at_start : r.activity_id # cur /\ r.downloaded_at < now
    /\ \E r \in db : r.activity_id = cur /\ r.downloaded_at = now

C27_ValidTokenIsResumed ==
    [][(spc \in {"with_auth", "get_filtered_activities"} /\ spc' # spc
           /\ token_data # NoneV /\ now < token_data[1].expires_at - Margin)
          => /\ refreshes' = refreshes
             /\ prompts' = prompts
             /\ token_file' = token_file
             /\ header' = header
             /\ raised' = "none"]_vars

\* A second run resumed the token persisted by the first and reached the
\* listing without a refresh and without a prompt.
C27_Witness ==
    /\ runs = 2
    /\ spc = "activities_get"
    /\ token_file # NoneV
    /\ now < token_file[1].expires_at - Margin
    /\ header = token_file[1].access_token
    /\ refreshes = NoRefreshes
    /\ prompts = 0

\* C28: an activity is in the ledger only if a transfer of it succeeded and
\* its file was written completely; a transfer attempt that fails leaves the
\* ledger unchanged.
C28_CommitOnlyAfterCompleteTransfer ==
    [][/\ \A i \in Ids :
              RowsOf(db', i) # {} => (files'[i] = "complete" /\ transfers'[i] >= 1)
       /\ (result'[cur'] = "raised" /\ result[cur] # "raised") => db' = db]_vars

\* A run in which one activity was committed and the write of another failed.
C28_Witness ==
    /\ result[cur] = "raised"
    /\ files[cur] = "partial"
    /\ RowsOf(db, cur) = {}
    /\ \E i \in Ids : RowsOf(db, i) # {} /\ files[i] = "complete"

\* C29: after every successful login or refresh the Authorization header of
\* the session is the bearer of the new access token, whatever the expiry of
\* the new token.
C29_HeaderCarriesNewToken ==
    [][(issued' # issued /\ raised' = "none") => header' = issued']_vars

\* ------------------- src/myWhoosh2Garmin.py and src/strava/test.py: main()
\* A source file: the numeric tokens of its name after the last "-"
\* (MyNewActivity-3.9.fit gives <<3, 9>>) and its modification time.
SourceFiles ==
    { [version |-> <<3, 9>>, mtime |-> 2],
      [version |-> <<3, 10>>, mtime |-> 1],
      [version |-> <<4>>, mtime |-> 2] }

\* Python's order on tuples of integers.
RECURSIVE TupleLess(_, _)
TupleLess(a, b) ==
    IF a = <<>> THEN b # <<>>
    ELSE IF b = <<>> THEN FALSE
    ELSE IF Head(a) # Head(b) THEN Head(a) < Head(b)
    ELSE TupleLess(Tail(a), Tail(b))

\* max(fit_files, key=lambda f: f.stat().st_mtime): a file of the greatest
\* modification time (the first of them in glob order).
MaxByMtime(dir) == {f \in dir : \A g \in dir : g.mtime <= f.mtime}

\* LocalSourceHandler.get_fit_files()[0]: a file of the greatest version.
get_fit_files(dir) == {f \in dir : \A g \in dir : ~ TupleLess(f.version, g.version)}

\* The timestamp of a file name that has no "_<timestamp>" suffix.
NoSuffix == -1

\* The name of a source file: <stem>.fit.  Names are compared whatever the
\* directories are, so also when the backup directory is the source directory.
SourcePath(f) == [stem |-> f.version, timestamp |-> NoSuffix]

\* BackupPath that keeps the name of the source file.
BackupPathNoSuffix(f, t) == SourcePath(f)

\* <backup dir>/<stem>_<timestamp>.fit
BackupPath(f, t) == [stem |-> f.version, timestamp |-> t]

\* out_file.to_file(path) with the given content; a file of that name is
\* replaced.
to_file(dirc, path, content) ==
    {b \in dirc : [stem |-> b.stem, timestamp |-> b.timestamp] # path}
        \cup {[stem |-> path.stem, timestamp |-> path.timestamp, content |-> content]}

\* Whether path names a file of the backup directory (Path.exists).
exists(dirc, path) ==
    \E b \in dirc : [stem |-> b.stem, timestamp |-> b.timestamp] = path

\* from_file_fails with the output file created before the source is decoded.
from_file_fails_after_create(dirc, path) == to_file(dirc, path, "partial")

\* The backup directory after FitFile.from_file raised: the transformers
\* decode the whole source before builder.build() and to_file, so nothing has
\* been written under path.
from_file_fails(dirc, path) == dirc

\* The answers of garth.client.upload: an acknowledgement, a GarthHTTPError
\* (duplicate activity, unauthorized, another status), another exception.
UploadResponses == {"ack", "duplicate", "unauthorized", "http_error", "exception"}

InitGarmin ==
    /\ GarminAtRest
    /\ prog \in {"myWhoosh2Garmin", "test"}
    /\ garth_tokens \in BOOLEAN
    /\ StravaAtRest
    /\ impl = "cleanup_fit_file"
    /\ records = <<>>
    /\ builder = <<>>
    /\ cadence_values = <<>>
    /\ power_values = <<>>
    /\ heart_rate_values = <<>>

\* The run goes on at pc `next`; `ev` is appended to the trace.
Goto(next, ev) ==
    /\ gpc' = next
    /\ trace' = IF ev = "" THEN trace ELSE Append(trace, ev)
    /\ UNCHANGED exit_code

\* The process ends with `code`; `ev` is appended to the trace.
Exit(code, ev) ==
    /\ gpc' = "idle"
    /\ trace' = IF ev = "" THEN trace ELSE Append(trace, ev)
    /\ exit_code' = code

\* The process starts: main().  myWhoosh2Garmin.py authenticates first,
\* test.py lists the source files first.
main ==
    /\ gpc = "idle"
    /\ gruns < MaxGarminRuns
    /\ gruns' = gruns + 1
    /\ fit_dir' \in SUBSET SourceFiles
    /\ fit_file' = NoneV
    /\ new_file_path' = NoneV
    /\ session' = "none"
    /\ trace' = <<>>
    /\ upload_resp' = "none"
    /\ exit_code' = -1
    /\ gpc' = IF prog = "myWhoosh2Garmin" THEN "authenticate" ELSE "select"
    /\ UNCHANGED <<fitVars, stravaVars, prog, garth_tokens, backups, clock>>

\* ---- src/myWhoosh2Garmin.py
\* authenticate_to_garmin: .garth exists, garth.resume and
\* garth.client.username succeed.
authenticate_to_garmin_resumed ==
    /\ gpc = "authenticate" /\ prog = "myWhoosh2Garmin"
    /\ garth_tokens
    /\ session' = "resumed"
    /\ Goto("select", "resume")
    /\ UNCHANGED <<fitVars, stravaVars, prog, garth_tokens, backups, clock, gruns, fit_dir,
                   fit_file, new_file_path, upload_resp>>

\* authenticate_to_garmin: garth.client.username raises GarthException
\* ("Session expired"), or .garth does not exist: get_credentials_for_garmin.
authenticate_to_garmin_credentials ==
    /\ gpc = "authenticate" /\ prog = "myWhoosh2Garmin"
    /\ Goto("credentials", "")
    /\ UNCHANGED <<fitVars, stravaVars, prog, garth_tokens, backups, clock, gruns, fit_dir,
                   fit_file, new_file_path, session, upload_resp>>

\* authenticate_to_garmin: garth.resume raises GarthException: sys.exit(1).
authenticate_to_garmin_error ==
    /\ gpc = "authenticate" /\ prog = "myWhoosh2Garmin"
    /\ garth_tokens
    /\ Exit(1, "")
    /\ UNCHANGED <<fitVars, stravaVars, prog, garth_tokens, backups, clock, gruns, fit_dir,
                   fit_file, new_file_path, session, upload_resp>>

\* get_credentials_for_garmin: garth.login succeeds, garth.save(".garth").
get_credentials_for_garmin ==
    /\ gpc = "credentials"
    /\ garth_tokens' = TRUE
    /\ session' = "logged_in"
    /\ Goto("select", "login")
    /\ UNCHANGED <<fitVars, stravaVars, prog, backups, clock, gruns, fit_dir, fit_file,
                   new_file_path, upload_resp>>

\* get_credentials_for_garmin: garth.login raises GarthHTTPError ("Wrong
\* credentials") or another GarthException: sys.exit(1).
get_credentials_for_garmin_fails ==
    /\ gpc = "credentials"
    /\ Exit(1, "login")
    /\ UNCHANGED <<fitVars, stravaVars, prog, garth_tokens, backups, clock, gruns, fit_dir,
                   fit_file, new_file_path, session, upload_resp>>

\* cleanup_and_save_fit_file: the newest file by modification time, the
\* timestamp and the backup path.
cleanup_and_save_fit_file ==
    /\ gpc = "select" /\ prog = "myWhoosh2Garmin"
    /\ \E f \in MaxByMtime(fit_dir) :
           /\ fit_file' = <<f>>
           /\ new_file_path' = <<BackupPath(f, clock)>>
    /\ Goto("transform", "select")
    /\ UNCHANGED <<fitVars, stravaVars, prog, garth_tokens, backups, clock, gruns, fit_dir,
                   session, upload_resp>>

\* cleanup_and_save_fit_file finds no .fit file and returns Path(); a Path is
\* truthy, so main calls upload_fit_file_to_garmin(Path()), where "." exists
\* and open(".") raises IsADirectoryError, which nothing catches.
cleanup_and_save_fit_file_none ==
    /\ gpc = "select" /\ prog = "myWhoosh2Garmin"
    /\ fit_dir = {}
    /\ Exit(1, "")
    /\ UNCHANGED <<fitVars, stravaVars, prog, garth_tokens, backups, clock, gruns, fit_dir,
                   fit_file, new_file_path, session, upload_resp>>

\* cleanup_fit_file: FitFile.from_file, the record walk and builder.build().
cleanup_decode ==
    /\ gpc = "transform" /\ prog = "myWhoosh2Garmin"
    /\ Goto("write", "transform")
    /\ UNCHANGED <<fitVars, stravaVars, prog, garth_tokens, backups, clock, gruns, fit_dir,
                   fit_file, new_file_path, session, upload_resp>>

\* CleanupFailedResult for an except branch that returns the path all the same.
CleanupFailedResultPath(path) == path

\* What cleanup_and_save_fit_file returns when cleanup_fit_file raised: the
\* except branch logs and falls off the function's end.
CleanupFailedResult(path) == NoneV

\* main after cleanup_and_save_fit_file returned ret from its except branch:
\* `if new_file_path: upload_fit_file_to_garmin(new_file_path)`, else the
\* process ends with 0.
AfterCleanupFailed(ret, ev) ==
    /\ new_file_path' = ret
    /\ IF ret # NoneV THEN Goto("upload", ev) ELSE Exit(0, ev)

\* cleanup_fit_file raises on a malformed stream; cleanup_and_save_fit_file
\* logs and returns None, main skips the upload and the process ends with 0.
cleanup_decode_fails ==
    /\ gpc = "transform" /\ prog = "myWhoosh2Garmin"
    /\ backups' = from_file_fails(backups, new_file_path[1])
    /\ AfterCleanupFailed(CleanupFailedResult(new_file_path), "transform_failed")
    /\ UNCHANGED <<fitVars, stravaVars, prog, garth_tokens, clock, gruns, fit_dir,
                   fit_file, session, upload_resp>>

\* cleanup_fit_file: out_file.to_file(new_file_path); the path is returned.
cleanup_write ==
    /\ gpc = "write" /\ prog = "myWhoosh2Garmin"
    /\ backups' = to_file(backups, new_file_path[1], "complete")
    /\ Goto("upload", "backup")
    /\ UNCHANGED <<fitVars, stravaVars, prog, garth_tokens, clock, gruns, fit_dir, fit_file,
                   new_file_path, session, upload_resp>>

\* to_file raises part-way: the file stays as far as it was written,
\* cleanup_and_save_fit_file returns None and the process ends with 0.
cleanup_write_fails ==
    /\ gpc = "write" /\ prog = "myWhoosh2Garmin"
    /\ backups' = to_file(backups, new_file_path[1], "partial")
    /\ AfterCleanupFailed(CleanupFailedResult(new_file_path), "backup_failed")
    /\ UNCHANGED <<fitVars, stravaVars, prog, garth_tokens, clock, gruns, fit_dir, fit_file,
                   session, upload_resp>>

\* upload_fit_file_to_garmin: when the path exists, garth.client.upload(f),
\* else "Invalid file path" is logged.  A GarthHTTPError of any
\* status is logged as "Duplicate activity found"; another exception ends the
\* process with a traceback.
upload_fit_file_to_garmin ==
    /\ gpc = "upload" /\ prog = "myWhoosh2Garmin"
    /\ IF exists(backups, new_file_path[1])
       THEN \E r \in UploadResponses :
                /\ upload_resp' = r
                /\ Exit(IF r = "exception" THEN 1 ELSE 0, "upload")
       ELSE Exit(0, "") /\ UNCHANGED upload_resp
    /\ UNCHANGED <<fitVars, stravaVars, prog, garth_tokens, backups, clock, gruns, fit_dir,
                   fit_file, new_file_path, session>>

\* ---- src/strava/test.py
\* main: source_handler.get_fit_files(), fit_files[0].
select_fit_file ==
    /\ gpc = "select" /\ prog = "test"
    /\ \E f \in get_fit_files(fit_dir) : fit_file' = <<f>>
    /\ Goto("transform", "select")
    /\ UNCHANGED <<fitVars, stravaVars, prog, garth_tokens, backups, clock, gruns, fit_dir,
                   new_file_path, session, upload_resp>>

\* main: `if not fit_files: logger.error(...); return`: the process ends with 0.
select_fit_file_none ==
    /\ gpc = "select" /\ prog = "test"
    /\ fit_dir = {}
    /\ Exit(0, "")
    /\ UNCHANGED <<fitVars, stravaVars, prog, garth_tokens, backups, clock, gruns, fit_dir,
                   fit_file, new_file_path, session, upload_resp>>

\* FitFileProcessor.process_file: FitFile.from_file and the record walk.
process_decode ==
    /\ gpc = "transform" /\ prog = "test"
    /\ Goto("write", "transform")
    /\ UNCHANGED <<fitVars, stravaVars, prog, garth_tokens, backups, clock, gruns, fit_dir,
                   fit_file, new_file_path, session, upload_resp>>

\* process_file raises on a malformed stream: main logs and sys.exit(1).
process_decode_fails ==
    /\ gpc = "transform" /\ prog = "test"
    /\ backups' = from_file_fails(backups, BackupPath(fit_file[1], clock))
    /\ Exit(1, "transform_failed")
    /\ UNCHANGED <<fitVars, stravaVars, prog, garth_tokens, clock, gruns, fit_dir,
                   fit_file, new_file_path, session, upload_resp>>

\* FitFileProcessor._save_processed_file: the timestamp, the path, to_file.
save_processed_file ==
    /\ gpc = "write" /\ prog = "test"
    /\ new_file_path' = <<BackupPath(fit_file[1], clock)>>
    /\ backups' = to_file(backups, BackupPath(fit_file[1], clock), "complete")
    /\ Goto("authenticate", "backup")
    /\ UNCHANGED <<fitVars, stravaVars, prog, garth_tokens, clock, gruns, fit_dir, fit_file,
                   session, upload_resp>>

\* to_file raises part-way: main logs and sys.exit(1).
save_processed_file_fails ==
    /\ gpc = "write" /\ prog = "test"
    /\ backups' = to_file(backups, BackupPath(fit_file[1], clock), "partial")
    /\ Exit(1, "backup_failed")
    /\ UNCHANGED <<fitVars, stravaVars, prog, garth_tokens, clock, gruns, fit_dir, fit_file,
                   new_file_path, session, upload_resp>>

\* GarminAuthenticator.authenticate() without credentials when .garth does not
\* exist: _try_resume_session returns False, `if credentials` is false, and the
\* method returns without a session and without raising, so main does not
\* prompt.
authenticate_no_tokens ==
    /\ gpc = "authenticate" /\ prog = "test"
    /\ ~ garth_tokens
    /\ Goto("upload", "")
    /\ UNCHANGED <<fitVars, stravaVars, prog, garth_tokens, backups, clock, gruns, fit_dir,
                   fit_file, new_file_path, session, upload_resp>>

\* GarminAuthenticator.authenticate() when .garth exists.  After garth.resume
\* _try_resume_session calls logger.info, but test.py binds `logger` only
\* inside main() and configure_logging(): the name is undefined in the method,
\* NameError leaves authenticate and main ends with sys.exit(1).  When
\* garth.resume raises GarthException, authenticate raises RuntimeError, main
\* prompts and calls authenticate(credentials), which resumes again and ends
\* the same way or with RuntimeError.
authenticate_with_tokens ==
    /\ gpc = "authenticate" /\ prog = "test"
    /\ garth_tokens
    /\ Exit(1, "resume")
    /\ UNCHANGED <<fitVars, stravaVars, prog, garth_tokens, backups, clock, gruns, fit_dir,
                   fit_file, new_file_path, session, upload_resp>>

\* UploadManager.upload_file: garth.client.upload(f).  After an
\* acknowledgement logger.info, after a GarthHTTPError logger.error raise
\* NameError (`logger` is undefined in the method); every outcome ends main
\* with sys.exit(1).
upload_file ==
    /\ gpc = "upload" /\ prog = "test"
    /\ upload_resp' \in UploadResponses
    /\ Exit(1, "upload")
    /\ UNCHANGED <<fitVars, stravaVars, prog, garth_tokens, backups, clock, gruns, fit_dir,
                   fit_file, new_file_path, session>>

\* A second passes.
ClockTick ==
    /\ clock < MaxClock
    /\ clock' = clock + 1
    /\ UNCHANGED <<fitVars, stravaVars, prog, garth_tokens, backups, gruns, gpc, fit_dir,
                   fit_file, new_file_path, session, trace, upload_resp, exit_code>>

NextGarmin ==
    \/ main
    \/ authenticate_to_garmin_resumed
    \/ authenticate_to_garmin_credentials
    \/ authenticate_to_garmin_error
    \/ get_credentials_for_garmin
    \/ get_credentials_for_garmin_fails
    \/ cleanup_and_save_fit_file
    \/ cleanup_and_save_fit_file_none
    \/ cleanup_decode
    \/ cleanup_decode_fails
    \/ cleanup_write
    \/ cleanup_write_fails
    \/ upload_fit_file_to_garmin
    \/ select_fit_file
    \/ select_fit_file_none
    \/ process_decode
    \/ process_decode_fails
    \/ save_processed_file
    \/ save_processed_file_fails
    \/ authenticate_no_tokens
    \/ authenticate_with_tokens
    \/ upload_file
    \/ ClockTick

SpecGarmin == InitGarmin /\ [][NextGarmin]_vars

\* ------------------------------------ properties of the upload pipeline
\* The positions of the trace that hold event e.
At(e) == {i \in 1..Len(trace) : trace[i] = e}

Before(e1, e2) == \A i \in At(e2) : \E j \in At(e1) : j < i

\* C6: every upload call is made under a session established earlier in the
\* same run by a resumption or a login; without a saved session, or with an
\* expired one, interactive authentication comes (or the run fails) before
\* any upload.
C6_UploadOnlyUnderValidSession ==
    At("upload") # {} => session \in {"resumed", "logged_in"}

\* The calls of a run that go to the network for certain: garth.login and
\* garth.client.upload.
NetworkCalls == {"login", "upload"}

\* C7: in every run selection completes before the transform starts, the
\* transform before the backup write, and the backup write before any network
\* call (login, refresh or upload).
C7_StrictStageOrder ==
    /\ Before("select", "transform")
    /\ Before("transform", "backup")
    /\ \A e \in NetworkCalls : Before("backup", e)

\* The run has ended after an upload call.
UploadEnded == gpc = "idle" /\ At("upload") # {}

\* C13: an upload answered with a "duplicate activity" error counts as a
\* successful delivery and the run ends with exit code 0; an upload answered
\* "unauthorized" or with another error does not end the run that way.
C13_DuplicateIsSuccess ==
    UploadEnded =>
        /\ upload_resp = "duplicate" => exit_code = 0
        /\ upload_resp \in {"unauthorized", "http_error", "exception"} => exit_code # 0

\* C16: the selector returns the candidate with the greatest numeric version
\* token of its filename (components compared numerically, in order), whatever
\* the modification times of the files.
C16_SelectsGreatestVersion ==
    fit_file # NoneV =>
        /\ fit_file[1] \in fit_dir
        /\ \A g \in fit_dir : ~ TupleLess(fit_file[1].version, g.version)

\* A run has ended.
RunEnded == gpc = "idle" /\ gruns > 0

\* C17: when the listing of source files is empty the run ends in a failure:
\* no transform, no backup write, no upload call, and a non-zero exit code.
C17_EmptyListingFailsTheRun ==
    (RunEnded /\ fit_dir = {}) =>
        /\ exit_code # 0
        /\ At("transform") = {} /\ At("backup") = {} /\ At("upload") = {}

\* C18: in a run where the transform or the backup write failed no upload call
\* is made: a partially transformed artifact is never uploaded.
C18_NoUploadAfterFailedStage ==
    (At("transform_failed") # {} \/ At("backup_failed") # {}) =>
        /\ At("upload") = {}
        /\ gpc = "idle"

\* Runs of both kinds have ended: one whose backup write failed and left a
\* partial file, after one whose upload was made.
C18_Witness ==
    /\ RunEnded
    /\ At("backup_failed") # {}
    /\ \E b \in backups : b.content = "partial"
    /\ upload_resp = "none"
    /\ gruns = 2

\* C19: a run whose source cannot be decoded ends at that point and writes no
\* output: the backup directory is as it was before the failure.
C19_DecodeFailureWritesNothing ==
    [][trace' = Append(trace, "transform_failed") =>
          /\ backups' = backups
          /\ gpc' = "idle"]_vars

\* A run ended by a decode failure, with no backup file of its source in the
\* backup directory.
C19_Witness ==
    /\ RunEnded
    /\ At("transform_failed") # {}
    /\ fit_file # NoneV
    /\ \A b \in backups : b.stem # fit_file[1].version

\* C20: a run that ends in an unrecoverable failure exits with a non-zero
\* code, and a run exits with 0 only when the upload was acknowledged or was
\* a duplicate.
C20_ExitCodeTellsTheOutcome ==
    RunEnded => (exit_code = 0 <=> upload_resp \in {"ack", "duplicate"})

\* C21: two runs on the same source file within the same second write two
\* distinct backup paths: a backup write never goes to a path at which a
\* backup file of an earlier run exists.
C21_BackupPathIsFresh ==
    [][trace' = Append(trace, "backup") => ~ exists(backups, new_file_path'[1])]_vars

\* C22: the backup write is atomic: a file is visible at a backup path only
\* with its complete content, never as a partial file of a failed write.
C22_NoPartialBackupVisible == \A b \in backups : b.content = "complete"

\* C26: a run never writes to its source file: the backup path differs from
\* the path of the selected source file, also when both are in one directory,
\* and no file written by the pipeline sits at that path.
C26_SourceIsNeverWritten ==
    fit_file # NoneV =>
        /\ new_file_path # NoneV => new_file_path[1] # SourcePath(fit_file[1])
        /\ \A b \in backups :
               [stem |-> b.stem, timestamp |-> b.timestamp] # SourcePath(fit_file[1])

\* A run has written the complete backup of its source file.
C26_Witness ==
    /\ At("backup") # {}
    /\ fit_file # NoneV
    /\ new_file_path # NoneV
    /\ new_file_path[1].stem = fit_file[1].version
    /\ \E b \in backups : b.stem = fit_file[1].version /\ b.content = "complete"

\* ------------------------------------------------------- the record walk
InitFit ==
    /\ impl \in {"cleanup_fit_file", "process_file"}
    /\ records = <<>>
    /\ builder = <<>>
    /\ cadence_values = <<>>
    /\ power_values = <<>>
    /\ heart_rate_values = <<>>
    /\ StravaAtRest
    /\ GarminAtRest
    /\ prog = "myWhoosh2Garmin"
    /\ garth_tokens = FALSE

\* The codec hands the next record of the stream to the running transformer.
CleanupWalk ==
    /\ \E message \in Messages : Len(records) < MaxLen /\ cleanup_fit_file(message)
    /\ UNCHANGED <<stravaVars, garminVars>>

ProcessWalk ==
    /\ \E message \in Messages : Len(records) < MaxLen /\ process_file(message)
    /\ UNCHANGED <<stravaVars, garminVars>>

NextFit == CleanupWalk \/ ProcessWalk

SpecFit == InitFit /\ [][NextFit]_vars

\* ------------------------------------------- properties of the record walk
Metrics == {"cadence", "power", "heart_rate"}

\* The metric of a record message, and the matching average of a session message.
MetricOf(message, f) ==
    CASE f = "cadence" -> message.cadence
      [] f = "power" -> message.power
      [] f = "heart_rate" -> message.heart_rate

AvgOf(message, f) ==
    CASE f = "cadence" -> message.avg_cadence
      [] f = "power" -> message.avg_power
      [] f = "heart_rate" -> message.avg_heart_rate

IsSession(message) == message.kind = "Session"

SessionPositions == {i \in 1..Len(records) : IsSession(records[i])}

\* The position of the session message before position i in the input (0: none).
PrevSession(i) ==
    LET before == {j \in SessionPositions : j < i}
    IN  IF before = {} THEN 0 ELSE CHOOSE j \in before : \A k \in before : k <= j

\* The positions of the record messages between the previous session message
\* and position i.
Interval(i) == {j \in (PrevSession(i) + 1)..(i - 1) : records[j].kind = "Record"}

\* What a Sample contributes to the sum of a metric: its value, 0 when absent.
Contribution(message, f) ==
    IF MetricOf(message, f) = NoneV THEN 0 ELSE MetricOf(message, f)[1]

RECURSIVE SumOver(_, _)
SumOver(S, f) ==
    IF S = {} THEN 0
    ELSE LET j == CHOOSE x \in S : TRUE
         IN  Contribution(records[j], f) + SumOver(S \ {j}, f)

\* v is the number total / n (0 when n = 0).
IsMean(v, total, n) ==
    /\ v # NoneV
    /\ v[2] > 0
    /\ IF n = 0 THEN v[1] = 0 ELSE v[1] * n = total * v[2]

\* The session message of the output that stems from input position i: session
\* messages are never dropped, so it is the one of the same rank.
OutSessions == SelectSeq(builder, IsSession)

EmittedSession(i) == OutSessions[Cardinality({j \in SessionPositions : j <= i})]

\* C8: for each metric independently, a SessionSummary whose average is absent
\* or zero in the source is emitted with the average sum/n of that metric over
\* the n Samples since the last reset (an absent or zero metric adds 0 to the
\* sum and 1 to n), and with 0 when n = 0.
C8_BackfilledAverageIsMean ==
    \A i \in SessionPositions : \A f \in Metrics :
        Falsy(AvgOf(records[i], f)) =>
            IsMean(AvgOf(EmittedSession(i), f), SumOver(Interval(i), f),
                   Cardinality(Interval(i)))

\* A summary backfilled from two or more Samples whose mean is not an integer.
C8_Witness ==
    \E i \in SessionPositions :
        /\ Falsy(AvgOf(records[i], "cadence"))
        /\ Cardinality(Interval(i)) >= 2
        /\ AvgOf(EmittedSession(i), "cadence")[2] > 1
        /\ \E j \in Interval(i) : records[j].heart_rate = NoneV

\* The values the record messages at the positions S add to an accumulator.
RECURSIVE Accumulated(_, _, _)
Accumulated(lo, hi, f) ==
    IF lo > hi THEN <<>>
    ELSE IF records[lo].kind = "Record"
         THEN <<Contribution(records[lo], f)>> \o Accumulated(lo + 1, hi, f)
         ELSE Accumulated(lo + 1, hi, f)

\* C9: the accumulator is reset at every SessionSummary: at every point of the
\* walk each accumulator holds exactly the Samples after the last SessionSummary,
\* and the averages backfilled into the second and later summaries are the
\* means of the Samples after the summary before, not of earlier ones.
C9_AccumulatorResetAtEverySession ==
    /\ cadence_values =
           Accumulated(PrevSession(Len(records) + 1) + 1, Len(records), "cadence")
    /\ power_values =
           Accumulated(PrevSession(Len(records) + 1) + 1, Len(records), "power")
    /\ heart_rate_values =
           Accumulated(PrevSession(Len(records) + 1) + 1, Len(records), "heart_rate")
    /\ \A i \in SessionPositions : \A f \in Metrics :
           (PrevSession(i) > 0 /\ Falsy(AvgOf(records[i], f))) =>
               LET seg == Accumulated(PrevSession(i) + 1, i - 1, f)
               IN  IsMean(AvgOf(EmittedSession(i), f), SumSeq(seg), Len(seg))

\* Two summaries in one stream, Samples before the first and between the two,
\* and the second one backfilled.
C9_Witness ==
    \E i \in SessionPositions :
        /\ PrevSession(i) > 1
        /\ \E j \in 1..(PrevSession(i) - 1) :
               records[j].kind = "Record" /\ Contribution(records[j], "power") > 0
        /\ Interval(i) # {}
        /\ Falsy(records[i].avg_power)
        /\ ~ Falsy(EmittedSession(i).avg_power)

\* What the walk must leave untouched in a message: its kind, and a Sample's
\* three metrics.
Kept(message) ==
    IF message.kind = "Record"
    THEN <<message.kind, message.cadence, message.power, message.heart_rate>>
    ELSE <<message.kind>>

KeptSeq(s) == [i \in 1..Len(s) |-> Kept(s[i])]

IsCreatorOrLap(message) == message.kind \in {"FileCreator", "Lap"}

NotCreatorOrLap(message) == ~ IsCreatorOrLap(message)

\* C10: the output is the input with exactly the Creator and Lap messages
\* removed: the other messages appear once each, in input order, and no Creator
\* or Lap message appears.
C10_OutputIsInputWithoutCreatorAndLap ==
    KeptSeq(builder) = KeptSeq(SelectSeq(records, NotCreatorOrLap))

\* C11: no Sample message of the output carries the temperature field, whether
\* or not the Samples of the input had it.
C11_NoTemperatureInOutput ==
    \A i \in 1..Len(builder) :
        builder[i].kind = "Record" => builder[i].temperature = NoneV

\* Samples with and without the temperature field went through the walk.
C11_Witness ==
    /\ \E j \in 1..Len(records) :
           records[j].kind = "Record" /\ records[j].temperature # NoneV
    /\ \E j \in 1..Len(records) :
           records[j].kind = "Record" /\ records[j].temperature = NoneV
    /\ Cardinality({i \in 1..Len(builder) : builder[i].kind = "Record"}) >= 2

\* C12: an average that is present and non-zero in a SessionSummary of the
\* source is emitted unchanged, whatever Samples were accumulated.
C12_PresentAverageIsKept ==
    \A i \in SessionPositions : \A f \in Metrics :
        ~ Falsy(AvgOf(records[i], f)) =>
            AvgOf(EmittedSession(i), f) = AvgOf(records[i], f)

\* A summary with a non-zero average whose accumulated Samples have another
\* mean, and with another average backfilled.
C12_Witness ==
    \E i \in SessionPositions :
        /\ ~ Falsy(records[i].avg_power)
        /\ Interval(i) # {}
        /\ ~ IsMean(records[i].avg_power, SumOver(Interval(i), "power"),
                    Cardinality(Interval(i)))
        /\ Falsy(records[i].avg_cadence)
        /\ ~ Falsy(EmittedSession(i).avg_cadence)

=============================================================================
